---- MODULE Spec2Model ----
(***************************************************************************)
(* Document ingestion pipeline of DeepMu                                   *)
(* (project/services/document_service.py, cache_service.py,                *)
(* qdrant_service.py), the upload and delete routes                        *)
(* (project/api/routes/documents.py) and the rate limiter                  *)
(* (project/api/middleware.py).                                            *)
(*                                                                         *)
(* Abstractions:                                                           *)
(*  - a byte content is an element of Contents; its length, its            *)
(*    suspicious-pattern scan result and its decoded text are given by     *)
(*    Catalog; sha256 is an injective tagging of the content / the text;   *)
(*  - a text is a sequence of sentences as spaCy segments it, a sentence   *)
(*    a sequence of words (numbers); a sentence without words is           *)
(*    whitespace;                                                          *)
(*  - chunk texts are kept in the state by their index in TextTable;       *)
(*  - the collaborators (redis, qdrant, the embedding model, libmagic,     *)
(*    the monitoring service, the format libraries) answer or raise        *)
(*    nondeterministically.                                                *)
(***************************************************************************)
EXTENDS Integers, Sequences, FiniteSets, TLC

\* ---------------------------------------------------------------- bounds
MaxIngests == 2      \* ingest calls in one behaviour
MaxMB      == 2      \* configured maxima tried by the validator specification
batch_size == 1      \* BATCH_SIZE, get_performance_config()["batch_size"]
MaxSents   == 3      \* sentences of a text tried by the chunker specification
MaxLimit   == 2      \* requests_per_minute values tried on the rate limiter
MaxCount   == 4      \* requests of one key counted or served in one window

\* ------------------------------------------------------ program constants
chunk_size       == 1000
overlap          == 200
max_file_size_mb == 50
MiB              == 1048576
default_ttl      == 3600     \* settings.redis.cache_ttl
embeddings_ttl   == 86400    \* cache_embeddings: ttl or 86400

None == "None"

\* ------------------------------------------------------------ the inputs
Sent(base, n) == [k \in 1..n |-> base + k]

\* a sentence of n times the same word
Echo(word, n) == [k \in 1..n |-> word]

\* the byte contents offered to the pipeline; mime: the answers libmagic may
\* give for the bytes, "RAISES" when it raises on them
Catalog ==
  [ empty   |-> [size |-> 0, suspicious |-> FALSE,
                 mime |-> {"application/x-empty", "text/plain"}, text |-> << >>],
    blank   |-> [size |-> 3, suspicious |-> FALSE, mime |-> {"text/plain"},
                 text |-> << << >> >>],
    one     |-> [size |-> 500, suspicious |-> FALSE, mime |-> {"text/plain"},
                 text |-> << Sent(0, 600) >>],
    two     |-> [size |-> 900, suspicious |-> FALSE, mime |-> {"application/pdf"},
                 text |-> << Sent(0, 600), Sent(1000, 600) >>],
    script  |-> [size |-> 40, suspicious |-> TRUE, mime |-> {"text/plain"},
                 text |-> << Sent(5000, 3) >>],
    echo    |-> [size |-> 700, suspicious |-> FALSE, mime |-> {"text/plain"},
                 text |-> << Echo(9000, 1000), Echo(9000, 800) >>],
    garbled |-> [size |-> 7, suspicious |-> FALSE, mime |-> {"RAISES"},
                 text |-> << Sent(7000, 2) >>],
    huge    |-> [size |-> max_file_size_mb * MiB + 1, suspicious |-> FALSE,
                 mime |-> {"application/pdf"}, text |-> << Sent(6000, 2) >>] ]

Contents == DOMAIN Catalog

Filenames == {"a.txt", "b.txt", "c.pdf", "d.md", "e.exe"}

\* the uploads offered to the pipeline: <<content, filename, user_id>>
Uploads ==
  { <<"empty", "a.txt", "None">>, <<"blank", "a.txt", "None">>,
    <<"one", "a.txt", "None">>, <<"one", "b.txt", "u1">>,
    <<"two", "c.pdf", "None">>, <<"two", "a.txt", "None">>,
    <<"one", "e.exe", "None">>, <<"script", "a.txt", "None">>,
    <<"garbled", "a.txt", "None">>, <<"huge", "c.pdf", "None">> }

\* the answers of libmagic's content sniffing ("RAISES": it raises)
MagicAnswers == UNION {Catalog[c].mime : c \in Contents}

\* Path(filename).suffix.lower()
Suffix(filename) ==
  CASE filename \in {"a.txt", "b.txt"} -> ".txt"
    [] filename = "c.pdf" -> ".pdf"
    [] filename = "d.md"  -> ".md"
    [] OTHER              -> ".exe"

supported_formats == {".pdf", ".docx", ".doc", ".txt", ".md", ".html", ".htm",
                      ".rtf", ".xlsx", ".xls", ".csv", ".json", ".xml",
                      ".png", ".jpg", ".jpeg", ".tiff", ".bmp"}

max_file_size == max_file_size_mb * MiB

\* hashlib.sha256(file_content).hexdigest()
FileHash(content) == <<"sha256", content>>

\* ---------------------------------------------------------- the validator
ExpectedMime(ext) ==
  CASE ext = ".pdf" -> "application/pdf"
    [] ext = ".txt" -> "text/plain"
    [] OTHER        -> None

\* _detect_malicious_content: a pattern of the list occurs in the lowered
\* bytes; scan_ok: the scan did not raise, else its except returns False
DetectMaliciousContent(suspicious, scan_ok) ==
  IF ~scan_ok THEN FALSE ELSE suspicious

\* line 148: len(file_content) > self.max_file_size
TooLarge_AtLimit(size, limit) == size >= limit

TooLarge(size, limit) == size > limit

\* lines 153-187: the checks after the size check
ChecksAfterSize(ext, mime, suspicious, scan_ok) ==
  IF ext \notin supported_formats
    THEN [safe |-> FALSE, checks |-> {<<"extension", "Unsupported file type">>},
          error |-> None, evaluated |-> <<"extension">>]
  ELSE IF mime = "RAISES"
    THEN [safe |-> FALSE, checks |-> {}, error |-> "magic",
          evaluated |-> <<"extension", "mime_type">>]
  ELSE IF ExpectedMime(ext) # None /\ mime # ExpectedMime(ext)
    THEN [safe |-> FALSE, checks |-> {<<"mime_type", "MIME mismatch">>},
          error |-> None, evaluated |-> <<"extension", "mime_type">>]
  ELSE IF DetectMaliciousContent(suspicious, scan_ok)
    THEN [safe |-> FALSE,
          checks |-> {<<"virus_scan", "passed">>,
                      <<"malicious_content", "Potential malicious content detected">>},
          error |-> None,
          evaluated |-> <<"extension", "mime_type", "malicious_content">>]
  ELSE [safe |-> TRUE,
        checks |-> {<<"virus_scan", "passed">>, <<"security", "passed">>},
        error |-> None,
        evaluated |-> <<"extension", "mime_type", "malicious_content">>]

\* mutant: no return after the size check failed
SecurityValidation_NoSizeReturn(size, ext, mime, suspicious, scan_ok, limit) ==
  LET rest == ChecksAfterSize(ext, mime, suspicious, scan_ok)
  IN IF TooLarge(size, limit)
       THEN [safe |-> FALSE,
             checks |-> {<<"file_size", "File too large">>} \cup rest.checks,
             error |-> rest.error,
             evaluated |-> <<"file_size">> \o rest.evaluated]
       ELSE [rest EXCEPT !.evaluated = <<"file_size">> \o @]

\* _security_validation(file_content, filename) with self.max_file_size = limit.
\* size: len(file_content); mime: what magic.from_buffer answers ("RAISES" when
\* it raises); suspicious: whether the bytes hold a suspicious pattern;
\* scan_ok: whether the pattern scan ran without raising.
\* evaluated lists the checks that were evaluated, in order.
SecurityValidation(size, ext, mime, suspicious, scan_ok, limit) ==
  IF TooLarge(size, limit)
    THEN [safe |-> FALSE, checks |-> {<<"file_size", "File too large">>},
          error |-> None, evaluated |-> <<"file_size">>]
    ELSE [ChecksAfterSize(ext, mime, suspicious, scan_ok) EXCEPT
            !.evaluated = <<"file_size">> \o @]

\* ------------------------------------------------------------ the chunker
\* " ".join / str.split(): the words of a sequence of sentences
RECURSIVE Words(_)
Words(sentences) ==
  IF sentences = << >> THEN << >>
  ELSE Head(sentences) \o Words(Tail(sentences))

\* mutant: the whole chunk is carried over
LastWords_All(words, n) == words

\* mutant: words[:n]
LastWords_First(words, n) ==
  IF Len(words) <= n THEN words ELSE SubSeq(words, 1, n)

\* words[-n:]
LastWords(words, n) ==
  IF Len(words) <= n THEN words ELSE SubSeq(words, Len(words) - n + 1, Len(words))

\* [sent.text.strip() for sent in doc.sents if sent.text.strip()]
RECURSIVE NonBlank(_)
NonBlank(sentences) ==
  IF sentences = << >> THEN << >>
  ELSE IF Head(sentences) = << >> THEN NonBlank(Tail(sentences))
  ELSE <<Head(sentences)>> \o NonBlank(Tail(sentences))

\* mutant: the loop without the final flush
RECURSIVE ChunkLoop_NoFlush(_, _, _, _)
ChunkLoop_NoFlush(sentences, current_chunk, current_size, chunks) ==
  IF sentences = << >> THEN chunks
  ELSE LET sentence == Head(sentences)
           sentence_size == Len(sentence)
       IN IF current_size + sentence_size > chunk_size /\ current_chunk # << >>
            THEN LET overlap_text == LastWords(current_chunk, overlap)
                     next_chunk == overlap_text \o sentence
                 IN ChunkLoop_NoFlush(Tail(sentences), next_chunk, Len(next_chunk),
                                      Append(chunks, [text |-> current_chunk,
                                                      type |-> "semantic",
                                                      token_count |-> current_size]))
            ELSE ChunkLoop_NoFlush(Tail(sentences), current_chunk \o sentence,
                                   current_size + sentence_size, chunks)

\* the loop over the sentences of _intelligent_chunking and its final flush;
\* current_chunk is kept as its words, chunks as records of words
RECURSIVE ChunkLoop(_, _, _, _)
ChunkLoop(sentences, current_chunk, current_size, chunks) ==
  IF sentences = << >>
    THEN IF current_chunk # << >>
           THEN Append(chunks, [text |-> current_chunk, type |-> "semantic",
                                token_count |-> current_size])
           ELSE chunks
  ELSE LET sentence == Head(sentences)
           sentence_size == Len(sentence)
       IN IF current_size + sentence_size > chunk_size /\ current_chunk # << >>
            THEN LET overlap_text == LastWords(current_chunk, overlap)
                     next_chunk == overlap_text \o sentence
                 IN ChunkLoop(Tail(sentences), next_chunk, Len(next_chunk),
                              Append(chunks, [text |-> current_chunk,
                                              type |-> "semantic",
                                              token_count |-> current_size]))
            ELSE ChunkLoop(Tail(sentences), current_chunk \o sentence,
                           current_size + sentence_size, chunks)

\* mutant: the except of the chunker returns no chunk
IntelligentChunking_NoFallback(text, nlp_ok) ==
  IF Words(text) = << >> \/ ~nlp_ok THEN << >>
  ELSE ChunkLoop(NonBlank(text), << >>, 0, << >>)

\* _intelligent_chunking(text, metadata); nlp_ok: the spaCy call returned
IntelligentChunking(text, nlp_ok) ==
  IF Words(text) = << >> THEN << >>
  ELSE IF ~nlp_ok
    THEN << [text |-> Words(text), type |-> "fallback",
             token_count |-> Len(Words(text))] >>
  ELSE ChunkLoop(NonBlank(text), << >>, 0, << >>)

\* every chunk text the catalog can produce, in a fixed order
AllTexts ==
  UNION { { IntelligentChunking(Catalog[c].text, ok)[k].text :
              k \in 1..Len(IntelligentChunking(Catalog[c].text, ok)) } :
          c \in Contents, ok \in BOOLEAN }

RECURSIVE SetToSeq(_)
SetToSeq(S) ==
  IF S = {} THEN << >>
  ELSE LET x == CHOOSE y \in S : TRUE IN <<x>> \o SetToSeq(S \ {x})

TextTable == SetToSeq(AllTexts)

TextIds == 1..Len(TextTable)

Intern(words) == CHOOSE k \in TextIds : TextTable[k] = words

\* the chunks of a text with their texts interned
ChunkTable ==
  [c \in Contents |-> [ok \in BOOLEAN |->
     LET cs == IntelligentChunking(Catalog[c].text, ok)
     IN [k \in 1..Len(cs) |-> [text |-> Intern(cs[k].text), type |-> cs[k].type,
                               token_count |-> cs[k].token_count]]]]

\* hashlib.sha256(text.encode()).hexdigest() of a chunk text
TextHash(text) == <<"sha256", text>>

\* ------------------------------------------------------------- embeddings
\* embedding_model.encode(...)[k]: the numpy vector of one text
Encode(text) == [kind |-> "ndarray", of |-> text]

\* embedding.tolist(); a list has no such method (AttributeError)
HasToList(embedding) == embedding.kind = "ndarray"

ToList(embedding) == [kind |-> "list", of |-> embedding.of]

\* ------------------------------------------------------ partial functions
Put(f, k, v) == [y \in DOMAIN f \cup {k} |-> IF y = k THEN v ELSE f[y]]

Drop(f, k) == [y \in DOMAIN f \ {k} |-> f[y]]

Min(a, b) == IF a <= b THEN a ELSE b

Range(seq) == {seq[k] : k \in 1..Len(seq)}

\* ----------------------------------------------------------------- state
Tasks == {1}

VARIABLES
  task,         \* per task: the locals of process_document and its position
  embCache,     \* redis keys "embedding:<hash>" -> the cached list
  resultCache,  \* redis keys "document_processing:<hash>" -> the cached result
  storage,      \* the qdrant collection: point id -> payload and vector
  calls,        \* history: process_document calls so far
  completed,    \* history: file hashes whose ingestion returned success
  vcase         \* one call of the validator: its inputs and its result

vars == <<task, embCache, resultCache, storage, calls, completed, vcase>>

NoResult == [pending |-> TRUE]

NoCase == [done |-> FALSE]

\* the locals before a call; the last fields are history of the call and the
\* ProcessingStatus of the document a request uploaded
IdleTask ==
  [ pc |-> "idle", file_content |-> None, filename |-> None, user_id |-> None,
    security_check |-> None, mime_type |-> None, text_content |-> None,
    metadata |-> None,
    chunks |-> << >>, i |-> 0, cached_embeddings |-> << >>,
    uncached_texts |-> << >>, uncached_indices |-> << >>,
    new_embeddings |-> << >>, embeddings |-> << >>, documents |-> << >>,
    storage_result |-> None, result |-> NoResult,
    steps |-> {}, availHit |-> {}, encoded |-> {}, encFailed |-> FALSE,
    dispatched |-> << >>, resultWritten |-> FALSE, hadResult |-> FALSE,
    nchunks |-> 0, redisAnswered |-> FALSE, status |-> "none" ]

\* the fields that outlive the call: its inputs and its history
Keep(t, pc, result) ==
  [ IdleTask EXCEPT !.pc = pc, !.result = result,
      !.file_content = t.file_content, !.filename = t.filename,
      !.user_id = t.user_id, !.security_check = t.security_check,
      !.text_content = t.text_content, !.storage_result = t.storage_result,
      !.steps = t.steps, !.availHit = t.availHit, !.encoded = t.encoded,
      !.encFailed = t.encFailed, !.dispatched = t.dispatched,
      !.resultWritten = t.resultWritten, !.hadResult = t.hadResult,
      !.nchunks = t.nchunks, !.redisAnswered = t.redisAnswered,
      !.status = t.status ]

\* return <result> from process_document
Return(t, result) == Keep(t, "done", result)

\* mutant: the exception leaves process_document
OuterExcept_Reraise(t, e) == Keep(t, "raised", [exception |-> e])

\* except Exception as e: return {"error": str(e)}
OuterExcept(t, e) == Return(t, [error |-> e])

Init ==
  /\ task = [p \in Tasks |-> IdleTask]
  /\ embCache = << >>
  /\ resultCache = << >>
  /\ storage = << >>
  /\ calls = 0
  /\ completed = {}
  /\ vcase = NoCase

\* a caller invokes process_document(file_content, filename, user_id)
Ingest(p, content, filename, user_id) ==
  /\ task[p].pc \in {"idle", "done", "cancelled", "raised"}
  /\ calls < MaxIngests
  /\ calls' = calls + 1
  /\ task' = [task EXCEPT ![p] =
       [IdleTask EXCEPT !.pc = "validate", !.file_content = content,
          !.filename = filename, !.user_id = user_id,
          !.hadResult = /\ FileHash(content) \in completed
                         /\ FileHash(content) \in DOMAIN resultCache
                         /\ resultCache[FileHash(content)].documents # << >>]]
  /\ UNCHANGED <<embCache, resultCache, storage, completed, vcase>>

\* magic.from_buffer(file_content, mime=True): the answers libmagic may give
\* for the bytes
MagicFromBuffer(content) == Catalog[content].mime

\* mutant: an unsafe upload goes on to the extraction
Validate_NoReturn(p) ==
  /\ task[p].pc = "validate"
  /\ \E mime \in MagicFromBuffer(task[p].file_content) :
       LET t == task[p]
           c == Catalog[t.file_content]
           security_check == SecurityValidation(c.size, Suffix(t.filename), mime,
                                                c.suspicious, TRUE, max_file_size)
           t1 == [t EXCEPT !.security_check = security_check, !.mime_type = mime]
       IN task' = [task EXCEPT ![p] = [t1 EXCEPT !.pc = "extract"]]
  /\ UNCHANGED <<embCache, resultCache, storage, calls, completed,
                 vcase>>

\* lines 79-82: the security validation and the return on an unsafe upload;
\* file_content is a bytes object, on which the pattern scan does not raise
Validate(p) ==
  /\ task[p].pc = "validate"
  /\ \E mime \in MagicFromBuffer(task[p].file_content) :
       LET t == task[p]
           c == Catalog[t.file_content]
           security_check == SecurityValidation(c.size, Suffix(t.filename), mime,
                                                c.suspicious, TRUE, max_file_size)
           t1 == [t EXCEPT !.security_check = security_check, !.mime_type = mime]
       IN task' = [task EXCEPT ![p] =
            IF ~security_check.safe
              THEN Return(t1, [error |-> "Security validation failed",
                               details |-> security_check])
              ELSE [t1 EXCEPT !.pc = "extract"]]
  /\ UNCHANGED <<embCache, resultCache, storage, calls, completed,
                 vcase>>

\* what _extract_text can return for a suffix: the decoded text of the content,
\* "" when the format's extractor caught its own failure, None when it raised
ExtractOutcomes(content, ext) ==
  IF ext \in {".txt", ".md"} THEN {content, None}
  ELSE {content, "empty", None}

\* mutant: only None counts as no text
NoText_NoneOnly(text_content) == text_content = None

\* not text_content
NoText(text_content) ==
  text_content = None \/ Catalog[text_content].text = << >>

\* lines 85-89: entering the monitoring context, the extraction, the return
\* when no text was recovered
Extract(p) ==
  /\ task[p].pc = "extract"
  /\ \E monitoring_ok \in BOOLEAN :
     \E text_content \in ExtractOutcomes(task[p].file_content, Suffix(task[p].filename)) :
       LET t == task[p]
           t1 == [t EXCEPT !.steps = @ \cup {"extract"},
                           !.text_content = text_content]
       IN task' = [task EXCEPT ![p] =
            IF ~monitoring_ok THEN OuterExcept(t, "monitoring")
            ELSE IF NoText(text_content)
              THEN Return(t1, [error |-> "Failed to extract text content"])
              ELSE [t1 EXCEPT !.pc = "chunk"]]
  /\ UNCHANGED <<embCache, resultCache, storage, calls,
                 completed, vcase>>

\* mutant: the hash is taken of the file name
GenerateMetadata_HashOfName(content, filename, user_id, mime) ==
  [ file_name |-> filename, file_hash |-> FileHash(filename),
    file_size |-> Catalog[content].size, file_type |-> Suffix(filename),
    mime_type |-> mime, user_id |-> user_id, processing_version |-> "1.0" ]

\* _generate_metadata
GenerateMetadata(content, filename, user_id, mime) ==
  [ file_name |-> filename, file_hash |-> FileHash(content),
    file_size |-> Catalog[content].size, file_type |-> Suffix(filename),
    mime_type |-> mime, user_id |-> user_id, processing_version |-> "1.0" ]

\* where _generate_embeddings goes after the lookups
AfterLookups(t) ==
  IF t.uncached_texts # << >> THEN [t EXCEPT !.pc = "encode", !.i = 1]
  ELSE [t EXCEPT !.pc = "prepare"]

\* lines 92-95 and 421-426: the metadata, the chunks, the start of
\* _generate_embeddings; nlp_ok: the spaCy call in the chunker returned
ChunkStep(p, nlp_ok) ==
  /\ task[p].pc = "chunk"
  /\ LET t == task[p]
         chunks == ChunkTable[t.text_content][nlp_ok]
         t1 == [t EXCEPT !.steps = @ \cup {"chunk"},
                   !.metadata = GenerateMetadata(t.file_content, t.filename,
                                                 t.user_id, t.mime_type),
                   !.chunks = chunks, !.nchunks = Len(chunks),
                   !.embeddings = [k \in 1..Len(chunks) |-> None]]
     IN task' = [task EXCEPT ![p] =
          IF chunks = << >> THEN AfterLookups(t1)
          ELSE [t1 EXCEPT !.pc = "lookup", !.i = 1]]
  /\ UNCHANGED <<embCache, resultCache, storage, calls,
                 completed, vcase>>

\* the chunking step, the spaCy call returning or raising
Chunk(p) == \E nlp_ok \in BOOLEAN : ChunkStep(p, nlp_ok)

\* mutant: the lookup never finds an entry
CacheHas_AlwaysMiss(cache, key, redis_ok) == FALSE

\* CacheService.get_cache: whether it returns a value (redis answered and the
\* key is there) rather than None
CacheHas(cache, key, redis_ok) == redis_ok /\ key \in DOMAIN cache

\* CacheService.get_cached_embeddings on a hit: the list that was stored
GetCachedEmbeddings(cache, text_hash) == cache[text_hash].value

\* except Exception in _generate_embeddings: return []
EmbeddingsExcept(t) == [t EXCEPT !.pc = "prepare", !.embeddings = << >>]

\* lines 428-438: one round of the lookup loop
Lookup(p) ==
  /\ task[p].pc = "lookup"
  /\ \E monitoring_ok \in BOOLEAN, redis_ok \in BOOLEAN :
       LET t == task[p]
           i == t.i
           text == t.chunks[i].text
           text_hash == TextHash(text)
           hit == CacheHas(embCache, text_hash, redis_ok)
           t1 == [t EXCEPT !.steps = @ \cup {"cache_get"},
                           !.redisAnswered = @ \/ redis_ok,
                           !.availHit = IF redis_ok /\ text_hash \in DOMAIN embCache
                                          THEN @ \cup {i} ELSE @]
           t2 == IF hit
                   THEN [t1 EXCEPT !.cached_embeddings =
                           Append(@, <<i, GetCachedEmbeddings(embCache, text_hash)>>)]
                   ELSE [t1 EXCEPT !.uncached_texts = Append(@, text),
                                   !.uncached_indices = Append(@, i)]
           t3 == [t2 EXCEPT !.i = i + 1]
       IN task' = [task EXCEPT ![p] =
            IF ~monitoring_ok THEN EmbeddingsExcept(t1)
            ELSE IF i = Len(t.chunks) THEN AfterLookups(t3)
            ELSE t3]
  /\ UNCHANGED <<embCache, resultCache, storage, calls,
                 completed, vcase>>

\* mutant: the first vector of a batch is cached as soon as the batch is
\* encoded
EncodeBatch_WriteThrough(p) ==
  /\ task[p].pc = "encode"
  /\ \E encoder_ok \in BOOLEAN :
       LET t == task[p]
           last == Min(t.i + batch_size - 1, Len(t.uncached_texts))
           batch == SubSeq(t.uncached_texts, t.i, last)
           batch_embeddings == [k \in 1..Len(batch) |-> Encode(batch[k])]
           t1 == [t EXCEPT !.steps = @ \cup {"encode"},
                     !.encoded = @ \cup {t.uncached_indices[k] : k \in t.i..last}]
           t2 == [t1 EXCEPT !.new_embeddings = @ \o batch_embeddings,
                            !.i = last + 1]
       IN /\ task' = [task EXCEPT ![p] =
               IF ~encoder_ok THEN EmbeddingsExcept([t1 EXCEPT !.encFailed = TRUE])
               ELSE IF last = Len(t.uncached_texts)
                 THEN [t2 EXCEPT !.pc = "write", !.i = 1]
                 ELSE t2]
          /\ embCache' = IF encoder_ok
                           THEN Put(embCache, TextHash(batch[1]),
                                    [value |-> ToList(batch_embeddings[1]),
                                     ttl |-> embeddings_ttl])
                           ELSE embCache
  /\ UNCHANGED <<resultCache, storage, calls, completed, vcase>>

\* lines 447-450: one batch through the embedding model; a raise ends
\* _generate_embeddings in its except
EncodeBatch(p) ==
  /\ task[p].pc = "encode"
  /\ \E encoder_ok \in BOOLEAN :
       LET t == task[p]
           last == Min(t.i + batch_size - 1, Len(t.uncached_texts))
           batch == SubSeq(t.uncached_texts, t.i, last)
           batch_embeddings == [k \in 1..Len(batch) |-> Encode(batch[k])]
           t1 == [t EXCEPT !.steps = @ \cup {"encode"},
                     !.encoded = @ \cup {t.uncached_indices[k] : k \in t.i..last}]
           t2 == [t1 EXCEPT !.new_embeddings = @ \o batch_embeddings,
                            !.i = last + 1]
       IN task' = [task EXCEPT ![p] =
            IF ~encoder_ok THEN EmbeddingsExcept([t1 EXCEPT !.encFailed = TRUE])
            ELSE IF last = Len(t.uncached_texts)
              THEN [t2 EXCEPT !.pc = "write", !.i = 1]
              ELSE t2]
  /\ UNCHANGED <<embCache, resultCache, storage, calls,
                 completed, vcase>>

\* mutant: the write is counted as done although redis raised
SetCache_Unconditional(cache, key, value, redis_ok) == Put(cache, key, value)

\* CacheService.set_cache: the write is skipped when redis raises
SetCache(cache, key, value, redis_ok) ==
  IF redis_ok THEN Put(cache, key, value) ELSE cache

\* mutant: the entry is written with the default ttl of set_cache
CacheEmbeddings_DefaultTtl(cache, text_hash, embeddings, redis_ok) ==
  SetCache(cache, text_hash, [value |-> embeddings, ttl |-> default_ttl], redis_ok)

\* CacheService.cache_embeddings: setex("embedding:<hash>", 86400, embeddings);
\* an entry is kept with the ttl it was set with
CacheEmbeddings(cache, text_hash, embeddings, redis_ok) ==
  SetCache(cache, text_hash, [value |-> embeddings, ttl |-> embeddings_ttl], redis_ok)

\* lines 453-456: one round of the write-back loop
CacheWrite(p) ==
  /\ task[p].pc = "write"
  /\ \E redis_ok \in BOOLEAN :
     LET t == task[p]
         i == t.i
         text == t.uncached_texts[i]
         embedding == t.new_embeddings[i]
         idx == t.uncached_indices[i]
         t1 == [t EXCEPT !.steps = @ \cup {"cache_set"},
                         !.redisAnswered = @ \/ redis_ok,
                         !.embeddings[idx] = embedding, !.i = i + 1]
     IN /\ embCache' = CacheEmbeddings(embCache, TextHash(text), ToList(embedding),
                                      redis_ok)
        /\ task' = [task EXCEPT ![p] =
             IF i = Len(t.uncached_texts) THEN [t1 EXCEPT !.pc = "prepare"]
             ELSE t1]
  /\ UNCHANGED <<resultCache, storage, calls, completed, vcase>>

\* mutant: every cached index gets the first cached embedding
FillCached_FirstForAll(embeddings, cached_embeddings) ==
  [k \in 1..Len(embeddings) |->
     IF \E c \in 1..Len(cached_embeddings) : cached_embeddings[c][1] = k
       THEN cached_embeddings[1][2] ELSE embeddings[k]]

\* lines 459-460: the cached embeddings put at their indices
RECURSIVE FillCached(_, _)
FillCached(embeddings, cached_embeddings) ==
  IF cached_embeddings = << >> THEN embeddings
  ELSE FillCached([embeddings EXCEPT ![Head(cached_embeddings)[1]] =
                     Head(cached_embeddings)[2]],
                  Tail(cached_embeddings))

\* lines 458-466: what _generate_embeddings returns, [] after its except
GenerateEmbeddingsResult(t) ==
  IF t.embeddings = << >> THEN << >>
  ELSE FillCached(t.embeddings, t.cached_embeddings)

\* lines 103-115: the document of chunk k (chunk_index k - 1)
Document(metadata, filename, chunks, embeddings, k) ==
  [ id |-> <<metadata.file_hash, k - 1>>,
    text |-> chunks[k].text,
    embedding |-> ToList(embeddings[k]),
    metadata |-> metadata,
    chunk_type |-> chunks[k].type,
    file_name |-> filename,
    chunk_index |-> k - 1 ]

\* lines 458-462 and 100-116: the end of _generate_embeddings and the
\* documents built from zip(chunks, embeddings); tolist() of a cached list
\* raises
Prepare(p) ==
  /\ task[p].pc = "prepare"
  /\ LET t == task[p]
         embeddings == GenerateEmbeddingsResult(t)
         n == Min(Len(t.chunks), Len(embeddings))
         documents == [k \in 1..n |->
                         Document(t.metadata, t.filename, t.chunks, embeddings, k)]
     IN task' = [task EXCEPT ![p] =
          IF \E k \in 1..n : ~HasToList(embeddings[k])
            THEN OuterExcept(t, "tolist")
            ELSE [t EXCEPT !.pc = "store", !.embeddings = embeddings,
                           !.documents = documents]]
  /\ UNCHANGED <<embCache, resultCache, storage, calls,
                 completed, vcase>>

\* client.upsert(points): every point written under its id
RECURSIVE Upsert(_, _)
Upsert(collection, documents) ==
  IF documents = << >> THEN collection
  ELSE LET doc == Head(documents)
       IN Upsert(Put(collection, doc.id,
                     [vector |-> doc.embedding, text |-> doc.text,
                      metadata |-> doc.metadata, file_name |-> doc.file_name,
                      chunk_index |-> doc.chunk_index]),
                 Tail(documents))

\* line 119, _store_documents and QdrantService.add_documents: one upsert of
\* all documents; False when the client raises
Store(p) ==
  /\ task[p].pc = "store"
  /\ \E qdrant_ok \in BOOLEAN :
       LET t == task[p]
       IN /\ storage' = IF qdrant_ok THEN Upsert(storage, t.documents) ELSE storage
          /\ task' = [task EXCEPT ![p] =
               [t EXCEPT !.pc = "cache_result",
                         !.steps = @ \cup {"store"},
                         !.dispatched = Append(@, [n |-> Len(t.documents),
                                                   ok |-> qdrant_ok]),
                         !.storage_result = [qdrant |-> qdrant_ok]]]
  /\ UNCHANGED <<embCache, resultCache, calls, completed, vcase>>

\* lines 122-126 and _cache_processing_result
CacheResult(p) ==
  /\ task[p].pc = "cache_result"
  /\ \E redis_ok \in BOOLEAN :
     LET t == task[p]
     IN /\ resultCache' = SetCache(resultCache, t.metadata.file_hash,
                                   [documents |-> t.documents,
                                    metadata |-> t.metadata], redis_ok)
        /\ task' = [task EXCEPT ![p] =
             [t EXCEPT !.pc = "finish", !.steps = @ \cup {"result_cache"},
                       !.redisAnswered = @ \/ redis_ok,
                       !.resultWritten = redis_ok]]
  /\ UNCHANGED <<embCache, storage, calls, completed, vcase>>

\* lines 128-136: the embeddings counter and the success result
Finish(p) ==
  /\ task[p].pc = "finish"
  /\ \E monitoring_ok \in BOOLEAN :
       LET t == task[p]
       IN /\ task' = [task EXCEPT ![p] =
               IF ~monitoring_ok THEN OuterExcept(t, "monitoring")
               ELSE Return(t, [success |-> TRUE,
                               documents_count |-> Len(t.documents),
                               metadata |-> t.metadata,
                               storage_result |-> t.storage_result])]
          /\ completed' = IF monitoring_ok
                            THEN completed \cup {t.metadata.file_hash}
                            ELSE completed
  /\ UNCHANGED <<embCache, resultCache, storage, calls, vcase>>

\* the awaits at which the event loop can deliver a cancellation
SuspensionPoints == {"lookup", "write", "store", "cache_result"}

\* the enclosing request is cancelled: CancelledError passes every
\* "except Exception"
Cancel(p) ==
  /\ task[p].pc \in SuspensionPoints
  /\ task' = [task EXCEPT ![p] = Keep(task[p], "cancelled", [cancelled |-> TRUE])]
  /\ UNCHANGED <<embCache, resultCache, storage, calls,
                 completed, vcase>>

\* setex(key, 86400, ...): an embedding entry reaches its TTL
ExpireEmbedding(text_hash) ==
  /\ text_hash \in DOMAIN embCache
  /\ embCache' = Drop(embCache, text_hash)
  /\ UNCHANGED <<task, resultCache, storage, calls,
                 completed, vcase>>

\* setex(key, 86400, ...): a result entry reaches its TTL
ExpireResult(file_hash) ==
  /\ file_hash \in DOMAIN resultCache
  /\ resultCache' = Drop(resultCache, file_hash)
  /\ UNCHANGED <<task, embCache, storage, calls, completed, vcase>>

Next ==
  \/ \E p \in Tasks, u \in Uploads : Ingest(p, u[1], u[2], u[3])
  \/ \E p \in Tasks : Validate(p)
  \/ \E p \in Tasks : Extract(p)
  \/ \E p \in Tasks : Chunk(p)
  \/ \E p \in Tasks : Lookup(p)
  \/ \E p \in Tasks : EncodeBatch(p)
  \/ \E p \in Tasks : CacheWrite(p)
  \/ \E p \in Tasks : Prepare(p)
  \/ \E p \in Tasks : Store(p)
  \/ \E p \in Tasks : CacheResult(p)
  \/ \E p \in Tasks : Finish(p)
  \/ \E p \in Tasks : Cancel(p)
  \/ \E text_hash \in DOMAIN embCache : ExpireEmbedding(text_hash)
  \/ \E file_hash \in DOMAIN resultCache : ExpireResult(file_hash)

Spec == Init /\ [][Next]_vars

\* ------------------------------------------- the validator on its own
\* the configured maxima, in bytes
Limits == {mb * MiB : mb \in 0..MaxMB} \cup {max_file_size}

\* the lengths around a maximum
SizesAt(limit) == {n \in {0, limit - 1, limit, limit + 1} : n >= 0}

InitValidation ==
  /\ task = [p \in Tasks |-> IdleTask]
  /\ embCache = << >>
  /\ resultCache = << >>
  /\ storage = << >>
  /\ calls = 0
  /\ completed = {}
  /\ \E limit \in Limits, filename \in Filenames, mime \in MagicAnswers,
        suspicious \in BOOLEAN, scan_ok \in BOOLEAN :
       \E size \in SizesAt(limit) :
         vcase = [done |-> FALSE, size |-> size, filename |-> filename,
                  mime |-> mime, suspicious |-> suspicious, scan_ok |-> scan_ok,
                  limit |-> limit]

\* one call of _security_validation on the drawn upload
ValidateCase ==
  /\ ~vcase.done
  /\ vcase' = [done |-> TRUE, size |-> vcase.size, filename |-> vcase.filename,
               mime |-> vcase.mime, suspicious |-> vcase.suspicious,
               scan_ok |-> vcase.scan_ok, limit |-> vcase.limit,
               result |-> SecurityValidation(vcase.size, Suffix(vcase.filename),
                                             vcase.mime, vcase.suspicious,
                                             vcase.scan_ok, vcase.limit)]
  /\ UNCHANGED <<task, embCache, resultCache, storage, calls, completed>>

NextValidation == ValidateCase

SpecValidation == InitValidation /\ [][NextValidation]_vars

\* ------------------------------------------- two concurrent ingestions
\* two requests on the event loop, each calling process_document once
RaceTasks == {1, 2}

\* a one-chunk text and a two-chunk text whose first chunk is that chunk
RaceUploads == { <<"one", "a.txt", "None">>, <<"two", "c.pdf", "None">> }

InitRace ==
  /\ task = [p \in RaceTasks |-> IdleTask]
  /\ embCache = << >>
  /\ resultCache = << >>
  /\ storage = << >>
  /\ calls = 0
  /\ completed = {}
  /\ vcase = NoCase

\* a request calls process_document once
IngestOnce(p, content, filename, user_id) ==
  /\ task[p].pc = "idle"
  /\ Ingest(p, content, filename, user_id)

NextRace ==
  \/ \E p \in RaceTasks, u \in RaceUploads : IngestOnce(p, u[1], u[2], u[3])
  \/ \E p \in RaceTasks : Validate(p)
  \/ \E p \in RaceTasks : Extract(p)
  \/ \E p \in RaceTasks : Chunk(p)
  \/ \E p \in RaceTasks : Lookup(p)
  \/ \E p \in RaceTasks : EncodeBatch(p)
  \/ \E p \in RaceTasks : CacheWrite(p)
  \/ \E p \in RaceTasks : Prepare(p)
  \/ \E p \in RaceTasks : Store(p)
  \/ \E p \in RaceTasks : CacheResult(p)
  \/ \E p \in RaceTasks : Finish(p)

SpecRace == InitRace /\ [][NextRace]_vars

\* --------------------------------- documents with repeated chunk texts
\* a text whose two chunks have the same text, and a text of one chunk
PhaseUploads == { <<"echo", "a.txt", "None">>, <<"one", "a.txt", "None">> }

NextPhases ==
  \/ \E p \in Tasks, u \in PhaseUploads : Ingest(p, u[1], u[2], u[3])
  \/ \E p \in Tasks : Validate(p)
  \/ \E p \in Tasks : Extract(p)
  \/ \E p \in Tasks : Chunk(p)
  \/ \E p \in Tasks : Lookup(p)
  \/ \E p \in Tasks : EncodeBatch(p)
  \/ \E p \in Tasks : CacheWrite(p)
  \/ \E p \in Tasks : Prepare(p)
  \/ \E p \in Tasks : Store(p)
  \/ \E p \in Tasks : CacheResult(p)
  \/ \E p \in Tasks : Finish(p)
  \/ \E p \in Tasks : Cancel(p)
  \/ \E text_hash \in DOMAIN embCache : ExpireEmbedding(text_hash)
  \/ \E file_hash \in DOMAIN resultCache : ExpireResult(file_hash)

SpecPhases == Init /\ [][NextPhases]_vars

\* ------------------------------- the pipeline without its language model
\* self.nlp_model is None (spacy.load failed at start-up): every call of it in
\* the chunker raises
NextFallback ==
  \/ \E p \in Tasks, u \in Uploads : Ingest(p, u[1], u[2], u[3])
  \/ \E p \in Tasks : Validate(p)
  \/ \E p \in Tasks : Extract(p)
  \/ \E p \in Tasks : ChunkStep(p, FALSE)
  \/ \E p \in Tasks : Lookup(p)
  \/ \E p \in Tasks : EncodeBatch(p)
  \/ \E p \in Tasks : CacheWrite(p)
  \/ \E p \in Tasks : Prepare(p)
  \/ \E p \in Tasks : Store(p)
  \/ \E p \in Tasks : CacheResult(p)
  \/ \E p \in Tasks : Finish(p)
  \/ \E p \in Tasks : Cancel(p)
  \/ \E text_hash \in DOMAIN embCache : ExpireEmbedding(text_hash)
  \/ \E file_hash \in DOMAIN resultCache : ExpireResult(file_hash)

SpecFallback == Init /\ [][NextFallback]_vars

\* ------------------------------------- the upload route and its status
\* document_service.store_document_metadata / update_processing_status: the
\* document's ProcessingStatus is set
UpdateProcessingStatus(t, status) == [t EXCEPT !.status = status]

\* upload_document, lines 77-101: the metadata is stored with
\* processing_status "pending" and the background task is scheduled
UploadDocument(p, content, filename, user_id) ==
  /\ task[p].pc = "idle"
  /\ task[p].status = "none"
  /\ task' = [task EXCEPT ![p] =
       UpdateProcessingStatus(
         [IdleTask EXCEPT !.pc = "scheduled", !.file_content = content,
                          !.filename = filename, !.user_id = user_id],
         "pending")]
  /\ UNCHANGED <<embCache, resultCache, storage, calls, completed, vcase>>

\* _process_document_background, lines 300-307: the status is set to
\* "processing" and process_document is called
ProcessBackgroundStart(p) ==
  /\ task[p].pc = "scheduled"
  /\ calls' = calls + 1
  /\ task' = [task EXCEPT ![p] =
       [UpdateProcessingStatus(task[p], "processing") EXCEPT !.pc = "validate"]]
  /\ UNCHANGED <<embCache, resultCache, storage, completed, vcase>>

\* mutant: the status is written only in the except branch
ProcessBackgroundEnd_OnlyOnRaise(p) ==
  /\ task[p].pc = "raised"
  /\ task[p].status = "processing"
  /\ task' = [task EXCEPT ![p] = UpdateProcessingStatus(task[p], "failed")]
  /\ UNCHANGED <<embCache, resultCache, storage, calls, completed, vcase>>

\* _process_document_background, lines 309-317: whatever process_document
\* returned, the status is set to "completed"; to "failed" when it raised
ProcessBackgroundEnd(p) ==
  /\ task[p].pc \in {"done", "raised"}
  /\ task[p].status = "processing"
  /\ task' = [task EXCEPT ![p] =
       UpdateProcessingStatus(task[p], IF task[p].pc = "raised" THEN "failed"
                                       ELSE "completed")]
  /\ UNCHANGED <<embCache, resultCache, storage, calls, completed, vcase>>

NextStatus ==
  \/ \E p \in Tasks, u \in Uploads : UploadDocument(p, u[1], u[2], u[3])
  \/ \E p \in Tasks : ProcessBackgroundStart(p)
  \/ \E p \in Tasks : Validate(p)
  \/ \E p \in Tasks : Extract(p)
  \/ \E p \in Tasks : Chunk(p)
  \/ \E p \in Tasks : Lookup(p)
  \/ \E p \in Tasks : EncodeBatch(p)
  \/ \E p \in Tasks : CacheWrite(p)
  \/ \E p \in Tasks : Prepare(p)
  \/ \E p \in Tasks : Store(p)
  \/ \E p \in Tasks : CacheResult(p)
  \/ \E p \in Tasks : Finish(p)
  \/ \E p \in Tasks : ProcessBackgroundEnd(p)

SpecStatus == Init /\ [][NextStatus]_vars

\* the steps of the background task and of the pipeline it awaits
BackgroundStep ==
  \E p \in Tasks :
    \/ ProcessBackgroundStart(p)
    \/ Validate(p)
    \/ Extract(p)
    \/ Chunk(p)
    \/ Lookup(p)
    \/ EncodeBatch(p)
    \/ CacheWrite(p)
    \/ Prepare(p)
    \/ Store(p)
    \/ CacheResult(p)
    \/ Finish(p)
    \/ ProcessBackgroundEnd(p)

\* the event loop runs a scheduled background task, and every collaborator
\* call it awaits returns or raises
SpecStatusLive == SpecStatus /\ WF_vars(BackgroundStep)

\* ------------------------------------------------- the delete route
\* hashlib.sha256(file_content).hexdigest()[:16]
DocumentId(content) == <<"sha256_16", content>>

\* _save_uploaded_file: uploads/<document_id><extension>
FilePath(content, filename) == <<"uploads", DocumentId(content), Suffix(filename)>>

\* the uploads the routes are tried on: <<content, filename>>
RouteUploads == { <<"one", "a.txt">>, <<"two", "c.pdf">>, <<"two", "a.txt">> }

\* document_service.get_document_metadata returns a record
HasDocumentMetadata(store, document_id) == document_id \in DOMAIN store

\* document_service.store_document_metadata
StoreDocumentMetadata(store, document_id, doc_metadata) ==
  Put(store, document_id, doc_metadata)

\* document_service.delete_document_metadata
DeleteDocumentMetadata(store, document_id) ==
  IF document_id \in DOMAIN store THEN Drop(store, document_id) ELSE store

\* qdrant_service.delete_document: the entries of the document leave the
\* collection
QdrantDeleteDocument(collection, content) ==
  [id \in {x \in DOMAIN collection : x[1] # FileHash(content)} |-> collection[id]]

\* no background deletion scheduled; touched: the document was uploaded or
\* indexed again since its deletion was scheduled
NoDeletion == [pc |-> "idle", document |-> None, touched |-> FALSE]

\* vcase holds the state of the routes: the metadata store, the files in
\* uploads/ and the background deletion
InitDelete ==
  /\ task = [p \in Tasks |-> IdleTask]
  /\ embCache = << >>
  /\ resultCache = << >>
  /\ storage = << >>
  /\ calls = 0
  /\ completed = {}
  /\ vcase = [meta |-> << >>, files |-> {}, del |-> NoDeletion]

\* the deletion in flight is of this content
Deleting(content) == vcase.del.pc # "idle" /\ vcase.del.document = content

\* upload_document, lines 57-92: a document that is not known yet has its
\* file saved and its metadata stored
UploadSave(content, filename) ==
  /\ ~HasDocumentMetadata(vcase.meta, DocumentId(content))
  /\ vcase' = [vcase EXCEPT
       !.files = @ \cup {FilePath(content, filename)},
       !.meta = StoreDocumentMetadata(@, DocumentId(content),
                  [filename |-> filename, processing_status |-> "pending",
                   file_path |-> FilePath(content, filename)]),
       !.del.touched = @ \/ Deleting(content)]
  /\ UNCHANGED <<task, embCache, resultCache, storage, calls, completed>>

\* process_document, lines 100-119, for an uploaded document, every
\* collaborator answering: its chunks are in the collection
ProcessStored(content) ==
  /\ HasDocumentMetadata(vcase.meta, DocumentId(content))
  /\ \E mime \in MagicFromBuffer(content) :
       LET filename == vcase.meta[DocumentId(content)].filename
           chunks == ChunkTable[content][TRUE]
           embeddings == [k \in 1..Len(chunks) |-> Encode(chunks[k].text)]
           metadata == GenerateMetadata(content, filename, None, mime)
           documents == [k \in 1..Len(chunks) |->
                           Document(metadata, filename, chunks, embeddings, k)]
       IN storage' = Upsert(storage, documents)
  /\ vcase' = [vcase EXCEPT !.del.touched = @ \/ Deleting(content)]
  /\ UNCHANGED <<task, embCache, resultCache, calls, completed>>

\* delete_document, lines 182-192: the background deletion of a known
\* document is scheduled (404 for an unknown one)
DeleteDocument(content) ==
  /\ vcase.del.pc \in {"idle", "done", "failed"}
  /\ HasDocumentMetadata(vcase.meta, DocumentId(content))
  /\ vcase' = [vcase EXCEPT
       !.del = [pc |-> "qdrant", document |-> content, touched |-> FALSE]]
  /\ UNCHANGED <<task, embCache, resultCache, storage, calls, completed>>

\* _delete_document_background, line 324; a raise goes to the except
DeleteVectors ==
  /\ vcase.del.pc = "qdrant"
  /\ \E qdrant_ok \in BOOLEAN :
       /\ storage' = IF qdrant_ok
                       THEN QdrantDeleteDocument(storage, vcase.del.document)
                       ELSE storage
       /\ vcase' = [vcase EXCEPT
            !.del.pc = IF qdrant_ok THEN "metadata" ELSE "failed"]
  /\ UNCHANGED <<task, embCache, resultCache, calls, completed>>

\* _delete_document_background, line 327
DeleteMetadata ==
  /\ vcase.del.pc = "metadata"
  /\ \E store_ok \in BOOLEAN :
       vcase' = [vcase EXCEPT
         !.meta = IF store_ok
                    THEN DeleteDocumentMetadata(@, DocumentId(vcase.del.document))
                    ELSE @,
         !.del.pc = IF store_ok THEN "file" ELSE "failed"]
  /\ UNCHANGED <<task, embCache, resultCache, storage, calls, completed>>

\* _delete_document_background, lines 330-332: the metadata is read again and
\* the file it names is removed
DeleteFile ==
  /\ vcase.del.pc = "file"
  /\ \E store_ok \in BOOLEAN, remove_ok \in BOOLEAN :
       LET document_id == DocumentId(vcase.del.document)
           found == HasDocumentMetadata(vcase.meta, document_id)
           exists == found /\ vcase.meta[document_id].file_path \in vcase.files
       IN vcase' = [vcase EXCEPT
            !.files = IF store_ok /\ exists /\ remove_ok
                        THEN @ \ {vcase.meta[document_id].file_path}
                        ELSE @,
            !.del.pc = IF ~store_ok \/ (exists /\ ~remove_ok) THEN "failed"
                       ELSE "log"]
  /\ UNCHANGED <<task, embCache, resultCache, storage, calls, completed>>

\* _delete_document_background, lines 334-339: the completion is logged
LogDeletion ==
  /\ vcase.del.pc = "log"
  /\ \E monitoring_ok \in BOOLEAN :
       vcase' = [vcase EXCEPT
         !.del.pc = IF monitoring_ok THEN "done" ELSE "failed"]
  /\ UNCHANGED <<task, embCache, resultCache, storage, calls, completed>>

NextDelete ==
  \/ \E u \in RouteUploads : UploadSave(u[1], u[2])
  \/ \E u \in RouteUploads : ProcessStored(u[1])
  \/ \E u \in RouteUploads : DeleteDocument(u[1])
  \/ DeleteVectors
  \/ DeleteMetadata
  \/ DeleteFile
  \/ LogDeletion

SpecDelete == InitDelete /\ [][NextDelete]_vars

\* --------------------------------------------------- the rate limiter
\* the values of key_func(request)
RateKeys == {"10.0.0.1", "10.0.0.2"}

\* lines 67-80, the try block: what it raises ("ok": nothing); redis_ok: incr
\* and expire answered
TryBlock(current_requests, requests_per_minute, redis_ok) ==
  IF ~redis_ok THEN "RedisError"
  ELSE IF current_requests > requests_per_minute THEN "HTTPException"
  ELSE "ok"

\* line 82, "except Exception": HTTPException derives from Exception
CaughtByExcept(e) == e \in {"RedisError", "HTTPException"}

\* lines 67-86: what the wrapper answers: the exception of the try block when
\* the except does not catch it, else the awaited endpoint function
WrapperAnswer(current_requests, requests_per_minute, redis_ok) ==
  LET e == TryBlock(current_requests, requests_per_minute, redis_ok)
  IN IF e # "ok" /\ ~CaughtByExcept(e)
       THEN [status |-> 429, executed |-> FALSE]
       ELSE [status |-> 200, executed |-> TRUE]

\* vcase holds the limiter of one endpoint: its limit, the redis counters,
\* and per key the history of the current window
InitRateLimit ==
  /\ task = [p \in Tasks |-> IdleTask]
  /\ embCache = << >>
  /\ resultCache = << >>
  /\ storage = << >>
  /\ calls = 0
  /\ completed = {}
  /\ \E requests_per_minute \in 1..MaxLimit :
       vcase = [ requests_per_minute |-> requests_per_minute,
                 counter |-> [k \in RateKeys |-> 0],
                 served |-> [k \in RateKeys |-> 0],
                 uncounted |-> [k \in RateKeys |-> FALSE],
                 last |-> [key |-> None, current_requests |-> 0,
                           status |-> 0, executed |-> FALSE] ]

\* rate_limit.wrapper, lines 45-86, for a request with rate-limit key `key`:
\* incr, expire on the first request of a window, the check, the endpoint
RateLimitedRequest(key) ==
  /\ vcase.counter[key] < MaxCount
  /\ vcase.served[key] < MaxCount
  /\ \E redis_ok \in BOOLEAN :
       LET current_requests == vcase.counter[key] + 1
           answer == WrapperAnswer(current_requests, vcase.requests_per_minute,
                                   redis_ok)
       IN vcase' = [vcase EXCEPT
            !.counter[key] = IF redis_ok THEN current_requests ELSE @,
            !.served[key] = IF answer.executed THEN @ + 1 ELSE @,
            !.uncounted[key] = @ \/ ~redis_ok,
            !.last = [key |-> key,
                      current_requests |-> IF redis_ok THEN current_requests ELSE 0,
                      status |-> answer.status, executed |-> answer.executed]]
  /\ UNCHANGED <<task, embCache, resultCache, storage, calls, completed>>

\* expire(rate_limit_key, 60): the counter of a key reaches its ttl
WindowExpires(key) ==
  /\ vcase.counter[key] > 0
  /\ vcase' = [vcase EXCEPT !.counter[key] = 0, !.served[key] = 0,
                             !.uncounted[key] = FALSE]
  /\ UNCHANGED <<task, embCache, resultCache, storage, calls, completed>>

NextRateLimit ==
  \/ \E key \in RateKeys : RateLimitedRequest(key)
  \/ \E key \in RateKeys : WindowExpires(key)

SpecRateLimit == InitRateLimit /\ [][NextRateLimit]_vars

\* --------------------------------------------- the chunker on its own
\* the word counts of the sentences tried: a blank sentence, sentences that
\* fit several to a chunk, sentences of which two do not fit, a sentence of
\* chunk_size - overlap words, a sentence longer than a chunk
SentSizes == {0, 150, 450, 600, 800, 1100}

\* the texts of at most MaxSents sentences of these sizes, no word twice
ChunkerTexts ==
  UNION { { [k \in 1..n |-> Sent(k * 2000, sizes[k])] : sizes \in [1..n -> SentSizes] } :
          n \in 0..MaxSents }

InitChunking ==
  /\ task = [p \in Tasks |-> IdleTask]
  /\ embCache = << >>
  /\ resultCache = << >>
  /\ storage = << >>
  /\ calls = 0
  /\ completed = {}
  /\ \E text \in ChunkerTexts, nlp_ok \in BOOLEAN :
       vcase = [done |-> FALSE, text |-> text, nlp_ok |-> nlp_ok]

\* one call of _intelligent_chunking on the drawn text
ChunkCase ==
  /\ ~vcase.done
  /\ vcase' = [done |-> TRUE, text |-> vcase.text, nlp_ok |-> vcase.nlp_ok,
               chunks |-> IntelligentChunking(vcase.text, vcase.nlp_ok)]
  /\ UNCHANGED <<task, embCache, resultCache, storage, calls, completed>>

NextChunking == ChunkCase

SpecChunking == InitChunking /\ [][NextChunking]_vars

\* ================================================================ claims
Returned(t) == t.pc = "done"

Succeeded(t) == t.pc = "done" /\ "success" \in DOMAIN t.result

Failed(t) == t.pc = "done" /\ "error" \in DOMAIN t.result

\* C1: once ingest(B) has succeeded and its result is cached under B's
\* fingerprint, a second ingest(B) returns the cached result with cached=true
\* and calls neither the encoder nor add_documents.
C1_IdempotentIngest ==
  \A p \in Tasks :
    task[p].hadResult =>
      /\ task[p].encoded = {}
      /\ task[p].dispatched = << >>
      /\ Returned(task[p]) =>
           /\ Succeeded(task[p])
           /\ "cached" \in DOMAIN task[p].result

\* C2: when add_documents reports failure for the documents of an ingestion,
\* ingest does not return success and the processing result is not cached
\* under the fingerprint.
C2_StorageFailureFails ==
  \A p \in Tasks :
    (\E k \in 1..Len(task[p].dispatched) :
        ~task[p].dispatched[k].ok /\ task[p].dispatched[k].n > 0) =>
      /\ ~Succeeded(task[p])
      /\ ~task[p].resultWritten

\* C3: when the encoder fails on a batch, ingest returns a failure, dispatches
\* no document of that ingestion and caches no processing result.
C3_EncoderFailureAborts ==
  \A p \in Tasks :
    task[p].encFailed =>
      /\ ~Succeeded(task[p])
      /\ \A k \in 1..Len(task[p].dispatched) : task[p].dispatched[k].n = 0
      /\ ~task[p].resultWritten

\* C4: a chunk whose text is in the embedding cache when it is looked up (redis
\* answering, the entry not expired) is never passed to the encoder.
C4_CachedChunkNotEncoded ==
  \A p \in Tasks : task[p].availHit \cap task[p].encoded = {}

\* C4 witness: an ingestion found one chunk cached and encoded another
C4_Witness ==
  \E p \in Tasks : task[p].availHit # {} /\ task[p].encoded # {}

\* C5: when the validator answers unsafe, ingest returns a failure that
\* carries the validation result and does nothing else: no extraction, no
\* chunking, no cache access, no encoder call, no storage call.
C5_ValidationFailureStops ==
  \A p \in Tasks :
    (task[p].pc \notin {"idle", "validate"} /\ ~task[p].security_check.safe) =>
      /\ Failed(task[p])
      /\ task[p].result = [error |-> "Security validation failed",
                           details |-> task[p].security_check]
      /\ task[p].steps = {}
      /\ task[p].encoded = {}
      /\ task[p].dispatched = << >>
      /\ ~task[p].resultWritten

\* C5 witness: an upload was rejected by the validator
C5_Witness ==
  \E p \in Tasks :
    /\ Returned(task[p])
    /\ ~task[p].security_check.safe
    /\ task[p].file_content = "huge"

\* the checks in the order of the validator
CheckOrder == <<"file_size", "extension", "mime_type", "malicious_content">>

\* whether check k fails on the upload of a validator call
CheckFails(v, k) ==
  CASE k = 1 -> v.size > v.limit
    [] k = 2 -> Suffix(v.filename) \notin supported_formats
    [] k = 3 -> /\ ExpectedMime(Suffix(v.filename)) # None
                /\ v.mime # ExpectedMime(Suffix(v.filename))
    [] OTHER -> v.suspicious

\* the checks a result reports as failed
Reasons(result) == {c[1] : c \in {x \in result.checks : x[2] # "passed"}}

\* C6: the checks run in the order size, extension, MIME, suspicious bytes
\* and stop at the first that fails: the result is unsafe, reports that check
\* only and no later check was evaluated; the result is safe only if all four
\* pass. (A raise of libmagic or of the pattern scan is left to the
\* fail-closed claim.)
C6_ChecksInOrder ==
  (vcase.done /\ vcase.scan_ok) =>
    /\ \A k \in 1..4 :
         ( /\ CheckFails(vcase, k)
           /\ \A j \in 1..(k - 1) : ~CheckFails(vcase, j)
           /\ (k >= 3 => vcase.mime # "RAISES") ) =>
           /\ ~vcase.result.safe
           /\ Reasons(vcase.result) = {CheckOrder[k]}
           /\ vcase.result.evaluated = SubSeq(CheckOrder, 1, k)
    /\ vcase.result.safe =>
         /\ \A k \in 1..4 : ~CheckFails(vcase, k)
         /\ vcase.result.evaluated = CheckOrder
    /\ ((\A k \in 1..4 : ~CheckFails(vcase, k)) /\ vcase.mime # "RAISES") =>
         vcase.result.safe

\* C6 witness: an oversized upload with an unsupported suffix was validated
C6_Witness ==
  /\ vcase.done
  /\ CheckFails(vcase, 1)
  /\ CheckFails(vcase, 2)
  /\ vcase.suspicious

\* C7: content as long as the configured maximum passes the size check and
\* content one byte longer is rejected as too large, for every maximum.
C7_SizeBoundary ==
  vcase.done =>
    /\ vcase.size = vcase.limit =>
         /\ "file_size" \notin Reasons(vcase.result)
         /\ Len(vcase.result.evaluated) > 1
    /\ vcase.size = vcase.limit + 1 =>
         /\ ~vcase.result.safe
         /\ vcase.result.checks = {<<"file_size", "File too large">>}

\* C7 witness: an upload exactly at a non-zero maximum was accepted
C7_Witness ==
  /\ vcase.done
  /\ vcase.limit > 0
  /\ vcase.size = vcase.limit
  /\ vcase.result.safe

C9_NoExceptionEscapes ==
  \A p \in Tasks :
    /\ task[p].pc # "raised"
    /\ Returned(task[p]) => (Succeeded(task[p]) \/ Failed(task[p]))

\* C9 witness: an exception raised in process_document itself (the monitoring
\* call, tolist() of a cached list) came back as an error result
C9_Witness ==
  \E p \in Tasks :
    /\ Failed(task[p])
    /\ task[p].result.error \in {"monitoring", "tolist"}

\* the entries of the collection under a file hash
StoredIndexes(h) == {id[2] : id \in {x \in DOMAIN storage : x[1] = h}}

\* C10: within one ingestion add_documents is called at most once, only once
\* every chunk has its vector and with all documents of the ingestion; the
\* collection holds none or all of the entries 0..N-1 of an ingestion.
C10_AllOrNothingDispatch ==
  \A p \in Tasks :
    /\ Len(task[p].dispatched) <= 1
    /\ \A k \in 1..Len(task[p].dispatched) :
         task[p].dispatched[k].n = task[p].nchunks
    /\ \A h \in {FileHash(c) : c \in Contents} :
         StoredIndexes(h) = 0..(Cardinality(StoredIndexes(h)) - 1)

\* the positions at which a task holds its metadata, chunks and embeddings
AfterChunking == {"lookup", "encode", "write", "prepare", "store",
                  "cache_result", "finish"}

\* the positions after the storage dispatch
AfterDispatch == {"cache_result", "finish"}

\* C11: the documents dispatched for an ingestion with N chunks are N
\* documents, document k with chunk_index k, the text of chunk k and the id
\* <fingerprint>_<k>, k = 0..N-1 in the chunker's order.
C11_ChunkIdentifiers ==
  \A p \in Tasks :
    task[p].pc \in AfterDispatch =>
      LET t == task[p]
      IN /\ Len(t.documents) = Len(t.chunks)
         /\ \A k \in 1..Len(t.documents) :
              /\ t.documents[k].chunk_index = k - 1
              /\ t.documents[k].id = <<FileHash(t.file_content), k - 1>>
              /\ t.documents[k].text = t.chunks[k].text

UserIds == {u[3] : u \in Uploads}

\* C12: the fingerprint of an ingestion is the hash of its bytes whatever the
\* file name and the user id; the document ids, the result-cache key and the
\* stored entries carry that fingerprint.
C12_FingerprintOfBytesOnly ==
  /\ \A p \in Tasks :
       task[p].pc \in AfterChunking =>
         LET t == task[p]
         IN /\ t.metadata.file_hash = FileHash(t.file_content)
            /\ \A filename \in Filenames, user_id \in UserIds :
                 GenerateMetadata(t.file_content, filename, user_id,
                                  t.mime_type).file_hash = t.metadata.file_hash
            /\ \A k \in 1..Len(t.documents) :
                 t.documents[k].id[1] = FileHash(t.file_content)
  /\ \A h \in DOMAIN resultCache :
       /\ resultCache[h].metadata.file_hash = h
       /\ \A k \in 1..Len(resultCache[h].documents) :
            resultCache[h].documents[k].id[1] = h
  /\ \A id \in DOMAIN storage : storage[id].metadata.file_hash = id[1]

\* C12 witness: bytes stored under one file name are about to be stored
\* again under another name and user, under the same fingerprint
C12_Witness ==
  \E p \in Tasks :
    /\ task[p].pc = "store"
    /\ task[p].filename = "b.txt"
    /\ task[p].user_id = "u1"
    /\ task[p].documents # << >>
    /\ \E id \in DOMAIN storage :
         /\ id = task[p].documents[1].id
         /\ storage[id].file_name = "a.txt"
         /\ storage[id].metadata.user_id = "None"

\* the documents of a task's chunks with freshly encoded vectors
FreshDocuments(t) ==
  [k \in 1..Len(t.chunks) |->
     [ id |-> <<FileHash(t.file_content), k - 1>>, text |-> t.chunks[k].text,
       embedding |-> [kind |-> "list", of |-> t.chunks[k].text],
       metadata |-> t.metadata, chunk_type |-> t.chunks[k].type,
       file_name |-> t.filename, chunk_index |-> k - 1 ]]

\* what holds of an ingestion for which no redis call has answered
CacheDown(t) ==
  /\ t.cached_embeddings = << >>
  /\ ~t.resultWritten
  /\ t.pc = "encode" => t.uncached_indices = [k \in 1..Len(t.chunks) |-> k]
  /\ (t.pc \in {"store", "cache_result", "finish"}
        /\ Len(t.embeddings) = Len(t.chunks)) =>
       /\ t.documents = FreshDocuments(t)
       /\ t.encoded = 1..Len(t.chunks)
  /\ (t.pc \in AfterDispatch /\ Len(t.embeddings) = Len(t.chunks)
        /\ t.storage_result.qdrant) =>
       \A k \in 1..Len(t.chunks) :
         /\ <<FileHash(t.file_content), k - 1>> \in DOMAIN storage
         /\ storage[<<FileHash(t.file_content), k - 1>>].vector =
              [kind |-> "list", of |-> t.chunks[k].text]
  /\ (Returned(t) /\ "cache_get" \in t.steps) =>
       \/ Failed(t) /\ t.result.error = "monitoring"
       \/ /\ Succeeded(t)
          /\ ("encode" \in t.steps /\ ~t.encFailed) =>
               /\ t.result.documents_count = t.nchunks
               /\ t.encoded = 1..t.nchunks

\* C13: while every redis call of an ingestion fails, every lookup is a miss,
\* no write changes a cache and nothing raises; the encoder is called for
\* every chunk and the documents, the stored entries and the success result
\* are those of a run against an empty, working cache.
C13_CacheDownDegrades ==
  /\ [](\A p \in Tasks : ~task[p].redisAnswered => CacheDown(task[p]))
  /\ [][(task' # task /\ \A p \in Tasks : ~task'[p].redisAnswered) =>
          (embCache' = embCache /\ resultCache' = resultCache)]_vars

\* C13 witness: an ingestion of two chunks succeeded with both documents
\* while no redis call answered
C13_Witness ==
  \E p \in Tasks :
    /\ Succeeded(task[p])
    /\ ~task[p].redisAnswered
    /\ task[p].steps = {"extract", "chunk", "cache_get", "encode", "cache_set",
                        "store", "result_cache"}
    /\ task[p].nchunks = 2
    /\ task[p].result.documents_count = 2

\* the step of an ingestion failed: the encoder raised, or the storage call
\* did not succeed
StepFailed(t) ==
  \/ t.encFailed
  \/ \E k \in 1..Len(t.dispatched) : ~t.dispatched[k].ok

\* C14: the steps of an ingestion come in the order validation, extraction,
\* chunking, embedding, storage dispatch, result caching, each at most once and
\* none skipped; once a step has failed no later step is performed, in
\* particular no storage dispatch and no result-cache write; the result is
\* cached only after the storage dispatch.
C14_StateMachine ==
  \A p \in Tasks :
    LET t == task[p]
    IN /\ "extract" \in t.steps => t.security_check.safe
       /\ "chunk" \in t.steps => "extract" \in t.steps
       /\ t.steps \cap {"cache_get", "encode", "cache_set"} # {} =>
            "chunk" \in t.steps
       /\ "store" \in t.steps =>
            /\ "chunk" \in t.steps
            /\ Len(t.dispatched) = 1
            /\ t.dispatched[1].n = t.nchunks
       /\ "result_cache" \in t.steps => "store" \in t.steps
       /\ Succeeded(t) =>
            {"extract", "chunk", "store", "result_cache"} \subseteq t.steps
       /\ t.encFailed => "store" \notin t.steps
       /\ StepFailed(t) => "result_cache" \notin t.steps
       /\ StepFailed(t) => ~Succeeded(t)

\* the error results that report the failure of a collaborator
CollaboratorErrors == {"monitoring", "Failed to extract text content"}

\* the ingestion returned and no collaborator failed in it
RanClean(t) ==
  /\ Returned(t)
  /\ ~StepFailed(t)
  /\ Failed(t) => t.result.error \notin CollaboratorErrors
  /\ Succeeded(t) => t.result.documents_count = t.nchunks

\* the collection holds exactly the entries 0..N-1 of the content, with the
\* chunk texts and the vectors one ingestion of it stores
StoredAsBySingleIngestion(content, nlp_ok) ==
  LET chunks == ChunkTable[content][nlp_ok]
  IN /\ StoredIndexes(FileHash(content)) = 0..(Len(chunks) - 1)
     /\ \A k \in 1..Len(chunks) :
          /\ storage[<<FileHash(content), k - 1>>].text = chunks[k].text
          /\ storage[<<FileHash(content), k - 1>>].vector =
               [kind |-> "list", of |-> chunks[k].text]

\* C15: two concurrent ingestions of the same bytes in which no collaborator
\* fails both succeed, under every interleaving, and leave in the collection
\* exactly the entries a single ingestion stores.
C15_BenignSameContentRace ==
  \A p \in RaceTasks, q \in RaceTasks :
    ( /\ p # q
      /\ RanClean(task[p])
      /\ RanClean(task[q])
      /\ task[p].file_content = task[q].file_content
      /\ task[p].nchunks = task[q].nchunks ) =>
      /\ Succeeded(task[p])
      /\ Succeeded(task[q])
      /\ \E nlp_ok \in BOOLEAN :
           /\ Len(ChunkTable[task[p].file_content][nlp_ok]) = task[p].nchunks
           /\ StoredAsBySingleIngestion(task[p].file_content, nlp_ok)

\* C16: a step of an ingestion changes no entry of the collection and no
\* cached result under the fingerprint of other bytes, and an ingestion in
\* which no collaborator fails succeeds whatever an ingestion of other bytes
\* does meanwhile.
C16_IsolationBetweenDocuments ==
  /\ [](\A p \in RaceTasks, q \in RaceTasks :
         ( /\ p # q
           /\ RanClean(task[p])
           /\ task[q].pc # "idle"
           /\ task[q].file_content # task[p].file_content ) =>
           Succeeded(task[p]))
  /\ [][\A p \in RaceTasks :
          task'[p] # task[p] =>
            /\ \A id \in DOMAIN storage \cup DOMAIN storage' :
                 id[1] # FileHash(task[p].file_content) =>
                   /\ id \in DOMAIN storage \cap DOMAIN storage'
                   /\ storage'[id] = storage[id]
            /\ \A h \in DOMAIN resultCache \cup DOMAIN resultCache' :
                 h # FileHash(task[p].file_content) =>
                   /\ h \in DOMAIN resultCache \cap DOMAIN resultCache'
                   /\ resultCache'[h] = resultCache[h]]_vars

\* the chunks of a task that were cache hits
HitIndexes(t) == {t.cached_embeddings[c][1] : c \in 1..Len(t.cached_embeddings)}

StatusMoves ==
  { <<"none", "pending">>, <<"pending", "processing">>,
    <<"processing", "completed">>, <<"processing", "failed">> }

\* C19: a document's status is created as pending, moves only from pending to
\* processing and from processing to completed or failed, which are final; it
\* is completed only when the pipeline succeeded and failed whenever the
\* pipeline ended in failure.
C19_StatusLifecycle ==
  /\ [](\A p \in Tasks :
         /\ task[p].status = "completed" => Succeeded(task[p])
         /\ (Failed(task[p]) /\ task[p].status # "processing") =>
              task[p].status = "failed")
  /\ [][\A p \in Tasks :
          task'[p].status # task[p].status =>
            <<task[p].status, task'[p].status>> \in StatusMoves]_vars

\* the words of a chunk after its overlap prefix: a chunk after the first
\* starts with the last overlap words of the chunk before it
OwnWords(chunks, k) ==
  IF k = 1 THEN chunks[1].text
  ELSE LET prev == Len(chunks[k - 1].text)
           m == IF prev < overlap THEN prev ELSE overlap
       IN SubSeq(chunks[k].text, m + 1, Len(chunks[k].text))

\* whether seq begins with prefix
BeginsWith(seq, prefix) ==
  /\ Len(prefix) <= Len(seq)
  /\ SubSeq(seq, 1, Len(prefix)) = prefix

\* C17: every chunk but the first begins with the last 200 words of the chunk
\* before it (all its words when it has fewer), followed by the sentence that
\* did not fit into that chunk.
C17_ChunkOverlap ==
  (vcase.done /\ vcase.nlp_ok) =>
    \A k \in 2..Len(vcase.chunks) :
      LET prev == vcase.chunks[k - 1].text
          m == IF Len(prev) < overlap THEN Len(prev) ELSE overlap
          tail == SubSeq(prev, Len(prev) - m + 1, Len(prev))
      IN \E j \in 1..Len(vcase.text) :
           /\ vcase.text[j] # << >>
           /\ BeginsWith(vcase.chunks[k].text, tail \o vcase.text[j])
           /\ Len(prev) + Len(vcase.text[j]) > chunk_size

\* C17 witness: a chunk of fewer than 200 words was closed and a chunk of more
\* than 200 words was closed, each followed by a chunk
C17_Witness ==
  /\ vcase.done
  /\ vcase.nlp_ok
  /\ Len(vcase.chunks) = 3
  /\ Len(vcase.chunks[1].text) < overlap
  /\ Len(vcase.chunks[2].text) > overlap

\* the chunks' own words from chunk k on, in order
RECURSIVE OwnWordsFrom(_, _)
OwnWordsFrom(chunks, k) ==
  IF k > Len(chunks) THEN << >>
  ELSE OwnWords(chunks, k) \o OwnWordsFrom(chunks, k + 1)

\* C18: the chunks without their overlap prefixes, concatenated in order, are
\* the sentences of the text in order: nothing dropped, repeated or moved.
C18_SentencePreservation ==
  vcase.done =>
    /\ OwnWordsFrom(vcase.chunks, 1) = Words(vcase.text)
    /\ \A k \in 2..Len(vcase.chunks) : OwnWords(vcase.chunks, k) # << >>

\* C18 witness: a text of three sentences with words was cut into several chunks
C18_Witness ==
  /\ vcase.done
  /\ vcase.nlp_ok
  /\ Len(NonBlank(vcase.text)) = 3
  /\ Len(vcase.chunks) >= 2

\* C21: an ingestion in which chunks were served from the embedding cache and
\* no collaborator failed returns success, and the entry stored for each such
\* chunk carries the cached vector of the chunk's text.
C21_CacheHitKeepsIngestion ==
  \A p \in Tasks :
    (RanClean(task[p]) /\ task[p].availHit # {}) =>
      /\ Succeeded(task[p])
      /\ task[p].storage_result.qdrant =>
           \A i \in task[p].availHit :
             LET id == <<FileHash(task[p].file_content), i - 1>>
             IN /\ id \in DOMAIN storage
                /\ storage[id].vector = [kind |-> "list", of |-> storage[id].text]

\* a round of the write-back loop of task p is taken in this step
WriteBackStep(p) ==
  /\ task[p].pc = "write"
  /\ task'[p] # task[p]
  /\ task'[p].pc \in {"write", "prepare"}

\* the cache entry the write-back round of task p sets
WriteBackEntry(p) ==
  [value |-> ToList(task[p].new_embeddings[task[p].i]), ttl |-> embeddings_ttl]

\* the embedding cache after the write-back round of task p has landed
WrittenBack(p) ==
  Put(embCache, TextHash(task[p].uncached_texts[task[p].i]), WriteBackEntry(p))

\* no vector of the ingestion is in a document or dispatched while lookups,
\* encoder batches or write-backs are still to come, and once documents are
\* built from encoded vectors every write-back round has been taken
WriteBackFirst(t) ==
  /\ t.pc \in {"lookup", "encode", "write"} =>
       /\ t.documents = << >>
       /\ t.dispatched = << >>
  /\ (t.pc \in {"prepare", "store", "cache_result", "finish"}
        /\ t.embeddings # << >> /\ t.uncached_texts # << >>) =>
       /\ "cache_set" \in t.steps
       /\ t.i = Len(t.uncached_texts) + 1
       /\ Len(t.new_embeddings) = Len(t.uncached_texts)

\* C22: every vector the encoder computed for a miss is in the embedding
\* cache under the hash of its chunk's text, with a ttl of 86400 seconds, as
\* soon as its write-back round is over, and all rounds are over before a
\* document is built or dispatched.
C22_WriteBackBeforeUse ==
  /\ [](\A p \in Tasks : WriteBackFirst(task[p]))
  /\ [][\A p \in Tasks :
          WriteBackStep(p) =>
            /\ embCache' = WrittenBack(p)
            /\ task'[p].embeddings[task[p].uncached_indices[task[p].i]] =
                 task[p].new_embeddings[task[p].i]]_vars

\* C22 amended: every vector the encoder computed for a miss is passed to the
\* embedding-cache write under the hash of its chunk's text with a ttl of
\* 86400 seconds, which stores it unless redis fails, before the vector is
\* put in the embeddings list, in a document or dispatched.
C22_WriteBackAttemptedBeforeUse ==
  /\ [](\A p \in Tasks : WriteBackFirst(task[p]))
  /\ [][\A p \in Tasks :
          WriteBackStep(p) =>
            /\ embCache' \in {embCache, WrittenBack(p)}
            /\ task'[p].embeddings[task[p].uncached_indices[task[p].i]] =
                 task[p].new_embeddings[task[p].i]]_vars

\* C22 witness: both vectors of a two-chunk ingestion are in the cache with
\* their ttl and the documents are not built yet
C22_Witness ==
  \E p \in Tasks :
    /\ task[p].pc = "prepare"
    /\ Len(task[p].uncached_texts) = 2
    /\ task[p].embeddings # << >>
    /\ \A k \in 1..2 :
         /\ TextHash(task[p].uncached_texts[k]) \in DOMAIN embCache
         /\ embCache[TextHash(task[p].uncached_texts[k])] =
              [value |-> ToList(task[p].new_embeddings[k]), ttl |-> embeddings_ttl]

\* the one chunk the chunker returns for a text when sentence detection fails
FallbackChunk(content) ==
  [ text |-> Intern(Words(Catalog[content].text)), type |-> "fallback",
    token_count |-> Len(Words(Catalog[content].text)) ]

\* C23: when the sentence detection fails on a text that is not blank, the
\* chunker returns one chunk, the whole text tagged "fallback", the ingestion
\* goes on to the embedding lookups with it, no error result comes from the
\* chunking, and what is dispatched with a complete embeddings list is the one
\* document of that chunk.
C23_ChunkerFallback ==
  /\ [](\A p \in Tasks :
         LET t == task[p]
         IN /\ (t.pc \in AfterChunking /\ Words(Catalog[t.text_content].text) # << >>) =>
                 /\ t.chunks = << FallbackChunk(t.text_content) >>
                 /\ TextTable[t.chunks[1].text] = Words(Catalog[t.text_content].text)
                 /\ (t.pc \in AfterDispatch /\ Len(t.embeddings) = 1) =>
                      /\ t.dispatched = << [n |-> 1, ok |-> t.storage_result.qdrant] >>
                      /\ t.documents[1].text = t.chunks[1].text
                      /\ t.documents[1].chunk_type = "fallback"
                      /\ t.documents[1].embedding.of = t.chunks[1].text
            /\ (Failed(t) /\ "chunk" \in t.steps
                  /\ Words(Catalog[t.text_content].text) # << >>) =>
                 /\ t.nchunks = 1
                 /\ "cache_get" \in t.steps
                 /\ t.result.error \in {"monitoring", "tolist"})
  /\ [][\A p \in Tasks :
          (task[p].pc = "chunk" /\ task'[p] # task[p]
             /\ Words(Catalog[task[p].text_content].text) # << >>) =>
            /\ task'[p].pc = "lookup"
            /\ task'[p].chunks = << FallbackChunk(task[p].text_content) >>]_vars

\* C23 witness: a text of two sentences, two chunks when the sentences are
\* found, was stored as the one fallback chunk
C23_Witness ==
  \E p \in Tasks :
    /\ task[p].pc = "finish"
    /\ task[p].file_content = "two"
    /\ Len(ChunkTable["two"][TRUE]) = 2
    /\ task[p].storage_result.qdrant
    /\ Len(task[p].documents) = 1
    /\ <<FileHash("two"), 0>> \in DOMAIN storage
    /\ storage[<<FileHash("two"), 0>>].text = FallbackChunk("two").text

SavedFiles(content) == {f \in vcase.files : f[2] = DocumentId(content)}

\* C25: when the background deletion of a document has finished without an
\* error of a collaborator, and the document was not uploaded or indexed again
\* meanwhile, the collection holds no entry of it, the metadata store no record
\* of it and uploads/ no file of it.
C25_DeleteRemovesEverything ==
  (vcase.del.pc = "done" /\ ~vcase.del.touched) =>
    /\ StoredIndexes(FileHash(vcase.del.document)) = {}
    /\ ~HasDocumentMetadata(vcase.meta, DocumentId(vcase.del.document))
    /\ SavedFiles(vcase.del.document) = {}

\* C26: with redis answering, the endpoint function is executed for at most
\* requests_per_minute requests of a key within one counter window, and a
\* request counted beyond the limit is answered 429 without the endpoint
\* function being executed.
C26_RateLimitEnforced ==
  /\ \A key \in RateKeys :
       ~vcase.uncounted[key] => vcase.served[key] <= vcase.requests_per_minute
  /\ vcase.last.current_requests > vcase.requests_per_minute =>
       /\ vcase.last.status = 429
       /\ ~vcase.last.executed

\* C27: an ingestion that returns success reports at least one document and
\* as many documents as the chunker produced chunks, all dispatched in its one
\* storage call; no ingestion with zero chunks or with fewer vectors than
\* chunks returns success.
C27_SuccessImpliesStoredChunks ==
  \A p \in Tasks :
    Succeeded(task[p]) =>
      /\ task[p].result.documents_count >= 1
      /\ task[p].result.documents_count = task[p].nchunks
      /\ task[p].dispatched = << [n |-> task[p].nchunks, ok |-> TRUE] >>

\* the lookups of an ingestion are over: every chunk is a hit or a miss
AllLookedUp(t) ==
  Len(t.cached_embeddings) + Len(t.uncached_indices) = Len(t.chunks)

\* the steps in which an ingestion may write the embedding cache
PhaseOrder(t) ==
  /\ t.pc = "lookup" => t.steps \cap {"encode", "cache_set"} = {}
  /\ t.pc = "encode" =>
       /\ AllLookedUp(t)
       /\ "cache_set" \notin t.steps
  /\ t.pc = "write" =>
       /\ AllLookedUp(t)
       /\ Len(t.new_embeddings) = Len(t.uncached_texts)
       /\ t.encoded = Range(t.uncached_indices)
  /\ t.encFailed => "cache_set" \notin t.steps

\* C28: in an ingestion every chunk is looked up in the embedding cache before
\* the encoder is called, and every batch is encoded before the first write to
\* the embedding cache; no lookup and no encoder call, failed or not, changes
\* the embedding cache, and an ingestion whose encoder failed has not written it.
C28_PhaseOrdering ==
  /\ [](\A p \in Tasks : PhaseOrder(task[p]))
  /\ [][\A p \in Tasks :
          (task'[p] # task[p] /\ task[p].pc \in {"lookup", "encode"}) =>
            embCache' = embCache]_vars

\* C28 witness: a document of two chunks with the same text; both were looked
\* up and encoded, one is written and the other still to be written
C28_Witness ==
  \E p \in Tasks :
    /\ task[p].pc = "write"
    /\ task[p].i = 2
    /\ task[p].uncached_indices = <<1, 2>>
    /\ task[p].chunks[1].text = task[p].chunks[2].text
    /\ TextHash(task[p].chunks[1].text) \in DOMAIN embCache

\* a check of the validator call raised: libmagic, or the pattern scan
CheckRaised(v) ==
  /\ ~CheckFails(v, 1)
  /\ ~CheckFails(v, 2)
  /\ \/ v.mime = "RAISES"
     \/ ~CheckFails(v, 3) /\ ~v.scan_ok

\* C30: a validator call in which a check raised returns safe = false; no
\* content on which a check could not be completed is returned as safe.
C30_ValidationFailsClosed ==
  (vcase.done /\ CheckRaised(vcase)) => ~vcase.result.safe

\* every sentence of the text has at most chunk_size - overlap words
ShortSentences(text) ==
  \A j \in 1..Len(text) : Len(text[j]) <= chunk_size - overlap

\* every chunk has words, at most chunk_size of them, and there are no more
\* chunks than sentences with words
WithinBound(text, chunks) ==
  /\ \A k \in 1..Len(chunks) :
       /\ chunks[k].text # << >>
       /\ Len(chunks[k].text) <= chunk_size
  /\ Len(chunks) <= Len(NonBlank(text))

\* C29: when no sentence of a text has more than 800 words, every chunk the
\* chunker returns has at most 1000 words and at least one, and the chunks are
\* no more than the sentences.
C29_ChunkSizeBound ==
  (vcase.done /\ ShortSentences(vcase.text)) =>
    WithinBound(vcase.text, vcase.chunks)

\* C29 amended: the same of the chunks the chunker returns when its sentence
\* detection succeeds.
C29_ChunkSizeBoundSemantic ==
  (vcase.done /\ vcase.nlp_ok /\ ShortSentences(vcase.text)) =>
    WithinBound(vcase.text, vcase.chunks)

\* C29 witness: a sentence of 800 words that did not fit made a chunk of
\* exactly 1000 words with the overlap
C29_Witness ==
  /\ vcase.done
  /\ vcase.nlp_ok
  /\ ShortSentences(vcase.text)
  /\ \E k \in 2..Len(vcase.chunks) :
       /\ Len(vcase.chunks[k].text) = chunk_size
       /\ Len(vcase.chunks[k - 1].text) > overlap
====
